---- MODULE Spec2Model ----
(***************************************************************************)
(* Model of src/python/pdf_processor.py (class PDFProcessor): company-name *)
(* extraction from PDF text, the two-way split of a bill_shipping PDF and  *)
(* the per-archive processing loop.                                        *)
(*                                                                         *)
(* Text is a sequence of characters; a character is a one-element string.  *)
(* The module's lexer accepts ASCII only, so each Japanese character of    *)
(* the source is written by its reading:                                   *)
(*   "ji" "gyou" "sha" "mei"        = the four characters of the label     *)
(*                                    token at line 102                    *)
(*   "LB" "RB"                      = the brackets of the pattern, line 109*)
(*   "NL"                           = the line break '\n'                  *)
(*   "kabu" "shiki" "kai" "ya" ...  = the characters of the company        *)
(*                                    suffixes, lines 133-140              *)
(*   "K"                            = some other character of the class    *)
(*                                    [一-龯ァ-ヶー]                       *)
(*   "fu" "mei2" "na" "kai" "ya"    = the sentinel of lines 86, 118, 153   *)
(***************************************************************************)
EXTENDS Integers, Sequences, FiniteSets, TLC

VARIABLES
  pc,             \* where the program is
  period,         \* <<year, month>> of the run
  item,           \* the business subfolder at hand: [name, postage, bill]
  company_name,   \* the name extracted for it
  output,         \* the output directory
  output_before,  \* the output directory when split_pdf was last called
  split_files,    \* what split_pdf last returned
  error,          \* the exception the last call let out, "none" if none
  writes,         \* how the two writes of the last split_pdf would go
  success_count,  \* process_zip_file's count of files made
  pending,        \* the files of the subfolder still to handle, in order
  items_left,     \* subfolders of the archive not yet reached
  zips_left,      \* archives not yet reached
  zips_ok         \* run's count of archives that returned True

vars == <<pc, period, item, company_name, output, output_before, split_files,
          error, writes, success_count, pending, items_left, zips_left, zips_ok>>

----------------------------------------------------------------------------
(* Characters and strings                                                  *)

\* str.strip() removes leading and trailing whitespace.
Whitespace == {" ", "NL"}

\* '事業者名', lines 102 and 104.
LabelToken == <<"ji", "gyou", "sha", "mei">>

\* '不明な会社', lines 72, 81, 86, 118, 153, 157.
Sentinel == <<"fu", "mei2", "na", "kai", "ya">>

\* The character class [一-龯ァ-ヶー] of lines 133-140: kanji and katakana.
\* The hiragana "na" of the sentinel, Latin letters, spaces and the brackets
\* are outside it.
KanjiKana ==
  {"K", "ji", "gyou", "sha", "mei", "kabu", "shiki", "kai", "ya", "yuu",
   "gen", "gou", "shi", "kyou", "dou", "kumi", "zai", "dan", "hou", "jin",
   "fu", "mei2"}

\* The suffixes of company_patterns, in list order (lines 133-140).
company_patterns ==
  << <<"kabu", "shiki", "kai", "ya">>,     \* 株式会社
     <<"yuu", "gen", "kai", "ya">>,        \* 有限会社
     <<"gou", "shi", "kai", "ya">>,        \* 合資会社
     <<"gou", "mei", "kai", "ya">>,        \* 合名会社
     <<"kyou", "dou", "kumi", "gou">>,     \* 協同組合
     <<"kyou", "kai">>,                    \* 協会
     <<"zai", "dan">>,                     \* 財団
     <<"hou", "jin">> >>                   \* 法人

\* s[from..] (1-based), the empty string past the end.
Drop(s, from) == SubSeq(s, from, Len(s))

\* Whether t occurs in s at position i (1-based).
MatchAt(s, t, i) ==
  /\ i >= 1
  /\ i + Len(t) - 1 <= Len(s)
  /\ \A k \in 1..Len(t) : s[i + k - 1] = t[k]

\* The first position >= i at which t occurs in s, 0 when there is none.
RECURSIVE Find(_, _, _)
Find(s, t, i) ==
  IF i + Len(t) - 1 > Len(s) THEN 0
  ELSE IF MatchAt(s, t, i) THEN i
  ELSE Find(s, t, i + 1)

\* `t in s`
Contains(s, t) == Find(s, t, 1) # 0

\* s.split(t): the parts between the non-overlapping occurrences of t, left
\* to right; always at least one part.
RECURSIVE Split(_, _)
Split(s, t) ==
  LET p == Find(s, t, 1) IN
  IF p = 0 THEN <<s>>
  ELSE <<SubSeq(s, 1, p - 1)>> \o Split(Drop(s, p + Len(t)), t)

\* s.strip()
RECURSIVE LStrip(_)
LStrip(s) ==
  IF s # <<>> /\ Head(s) \in Whitespace THEN LStrip(Tail(s)) ELSE s

RECURSIVE RStrip(_)
RStrip(s) ==
  IF s # <<>> /\ s[Len(s)] \in Whitespace
  THEN RStrip(SubSeq(s, 1, Len(s) - 1)) ELSE s

Strip(s) == RStrip(LStrip(s))

\* re.sub(r'【[^】]*】', '', s): scanning left to right, an opening bracket
\* followed later by a closing bracket is removed with everything up to the
\* first closing bracket after it; an opening bracket with no closing one
\* after it stays.
RECURSIVE SubBrackets(_)
SubBrackets(s) ==
  IF s = <<>> THEN <<>>
  ELSE IF Head(s) = "LB" /\ Find(s, <<"RB">>, 2) # 0
       THEN SubBrackets(Drop(s, Find(s, <<"RB">>, 2) + 1))
       ELSE <<Head(s)>> \o SubBrackets(Tail(s))

\* The number of leading characters of s that are in the class.
RECURSIVE ClassRun(_)
ClassRun(s) ==
  IF s # <<>> /\ Head(s) \in KanjiKana THEN 1 + ClassRun(Tail(s)) ELSE 0

\* The length of the match of ([class]{2,}suffix) starting at the head of s,
\* 0 when there is none. The quantifier is greedy: the regex engine takes the
\* longest run of class characters first and gives characters back one at a
\* time until the suffix follows, never below two.
RECURSIVE BackTrack(_, _, _)
BackTrack(s, suffix, n) ==
  IF n < 2 THEN 0
  ELSE IF MatchAt(s, suffix, n + 1) THEN n + Len(suffix)
  ELSE BackTrack(s, suffix, n - 1)

MatchLen(s, suffix) == BackTrack(s, suffix, ClassRun(s))

\* re.findall(pattern, text): the non-overlapping matches, left to right.
RECURSIVE FindAll(_, _)
FindAll(s, suffix) ==
  IF s = <<>> THEN <<>>
  ELSE LET n == MatchLen(s, suffix) IN
       IF n > 0 THEN <<SubSeq(s, 1, n)>> \o FindAll(Drop(s, n + 1), suffix)
       ELSE FindAll(Tail(s), suffix)

\* max(matches, key=len): the first of the longest.
RECURSIVE MaxByLen(_)
MaxByLen(matches) ==
  IF Len(matches) = 1 THEN matches[1]
  ELSE LET rest == MaxByLen(Tail(matches)) IN
       IF Len(matches[1]) >= Len(rest) THEN matches[1] ELSE rest

----------------------------------------------------------------------------
(* Documents                                                               *)
(* A PDF file is [present, readable, pages]: present is `path is not None  *)
(* and path.exists()`, readable is whether opening and parsing the file    *)
(* and extracting its text succeed (otherwise PyPDF2 or open() raises),    *)
(* pages is the sequence of pages, each [no, text] with no the page's      *)
(* 0-based index in the file it was read from.                             *)

NoFile == [present |-> FALSE, readable |-> FALSE, pages |-> <<>>]

MkPages(texts) == [i \in 1..Len(texts) |-> [no |-> i - 1, text |-> texts[i]]]

MkDoc(texts) == [present |-> TRUE, readable |-> TRUE, pages |-> MkPages(texts)]

Corrupt(texts) ==
  [present |-> TRUE, readable |-> FALSE, pages |-> MkPages(texts)]

\* Lines 127, 107 and 149.
ScanPages == 3
MinLabelLen == 2
MinNameLen == 3
MaxNameLen == 50

\* The loop over company_patterns for one page's text (lines 143-151): the
\* first pattern whose longest match has a fitting length decides; <<>> when
\* none does.
RECURSIVE ScanPatterns(_, _)
ScanPatterns(text, k) ==
  IF k > Len(company_patterns) THEN <<>>
  ELSE LET matches == FindAll(text, company_patterns[k]) IN
       IF matches # <<>>
          /\ Len(Strip(MaxByLen(matches))) > MinNameLen
          /\ Len(Strip(MaxByLen(matches))) < MaxNameLen
       THEN Strip(MaxByLen(matches))
       ELSE ScanPatterns(text, k + 1)

\* The loop over the first pages (lines 127-151).
RECURSIVE ScanFirstPages(_, _, _)
ScanFirstPages(pages, page_num, limit) ==
  IF page_num >= limit THEN Sentinel
  ELSE LET found == ScanPatterns(pages[page_num + 1].text, 1) IN
       IF found # <<>> THEN found
       ELSE ScanFirstPages(pages, page_num + 1, limit)

Min(a, b) == IF a < b THEN a ELSE b

\* extract_company_name_from_pdf, lines 120-157. Any exception is caught
\* and gives the sentinel.
extract_company_name_from_pdf(pdf) ==
  IF ~pdf.readable THEN Sentinel
  ELSE ScanFirstPages(pdf.pages, 0, Min(ScanPages, Len(pdf.pages)))

\* full_text of lines 95-97: every page's text followed by a line break.
RECURSIVE FullText(_)
FullText(pages) ==
  IF pages = <<>> THEN <<>>
  ELSE Head(pages).text \o <<"NL">> \o FullText(Tail(pages))

\* A slip that takes the label's line only when the text after the label is
\* non-empty, forgetting the length test of line 107.
ScanLinesNoLength(lines) ==
  LET RECURSIVE Scan(_)
      Scan(ls) ==
        IF ls = <<>> THEN <<FALSE, <<>> >>
        ELSE LET parts == Split(Head(ls), LabelToken) IN
             IF Len(parts) > 1 /\ Strip(parts[2]) # <<>>
             THEN <<TRUE, Strip(SubBrackets(Strip(parts[2])))>>
             ELSE Scan(Tail(ls))
  IN Scan(lines)

\* The loop over the lines (lines 101-111): <<TRUE, name>> when a line
\* returns a name, <<FALSE, <<>> >> when the loop falls through.
RECURSIVE ScanLines(_)
ScanLines(lines) ==
  IF lines = <<>> THEN <<FALSE, <<>> >>
  ELSE LET line == Head(lines)
           parts == Split(line, LabelToken)
           name == IF Len(parts) > 1 THEN Strip(parts[2]) ELSE <<>>
       IN IF Contains(line, LabelToken) /\ Len(parts) > 1
             /\ name # <<>> /\ Len(name) > MinLabelLen
          THEN <<TRUE, Strip(SubBrackets(name))>>
          ELSE ScanLines(Tail(lines))

\* extract_company_name_from_postage, lines 88-118.
extract_company_name_from_postage(pdf) ==
  IF ~pdf.readable THEN Sentinel
  ELSE LET hit == ScanLines(Split(FullText(pdf.pages), <<"NL">>)) IN
       IF hit[1] THEN hit[2] ELSE extract_company_name_from_pdf(pdf)

\* A slip that returns whatever the postage statement gave, empty or the
\* sentinel, without trying bill_shipping.
extract_company_name_unchecked(subfolder_name, postage_pdf, bill_pdf) ==
  IF postage_pdf.present THEN extract_company_name_from_postage(postage_pdf)
  ELSE IF bill_pdf.present THEN extract_company_name_from_pdf(bill_pdf)
  ELSE Sentinel

\* A slip that falls back on the folder name, the text after its first
\* underscore, before giving up.
extract_company_name_folder(subfolder_name, postage_pdf, bill_pdf) ==
  LET fromPostage == IF postage_pdf.present
                     THEN extract_company_name_from_postage(postage_pdf)
                     ELSE <<>>
      fromBill == IF bill_pdf.present
                  THEN extract_company_name_from_pdf(bill_pdf)
                  ELSE <<>>
      us == Find(subfolder_name, <<"_">>, 1)
  IN IF fromPostage # <<>> /\ fromPostage # Sentinel THEN fromPostage
     ELSE IF fromBill # <<>> /\ fromBill # Sentinel THEN fromBill
     ELSE IF us # 0 THEN Drop(subfolder_name, us + 1)
     ELSE Sentinel

\* A slip that gives up when a file that is there cannot be read.
extract_company_name_abort(subfolder_name, postage_pdf, bill_pdf) ==
  IF (postage_pdf.present /\ ~postage_pdf.readable)
     \/ (bill_pdf.present /\ ~bill_pdf.readable)
  THEN Sentinel
  ELSE extract_company_name_folder(<<>>, postage_pdf, bill_pdf)

\* extract_company_name, lines 66-86. subfolder_name is not read.
extract_company_name(subfolder_name, postage_pdf, bill_pdf) ==
  LET fromPostage == IF postage_pdf.present
                     THEN extract_company_name_from_postage(postage_pdf)
                     ELSE <<>>
      fromBill == IF bill_pdf.present
                  THEN extract_company_name_from_pdf(bill_pdf)
                  ELSE <<>>
  IN IF fromPostage # <<>> /\ fromPostage # Sentinel THEN fromPostage
     ELSE IF fromBill # <<>> /\ fromBill # Sentinel THEN fromBill
     ELSE Sentinel

----------------------------------------------------------------------------
(* Output files                                                            *)
(* The output directory is a function from the names of the files in it to *)
(* their contents. A file's content is [pages, complete]: the pages        *)
(* written, and whether the write ran to its end. open(path, 'wb')         *)
(* truncates an existing file, so a write that raises after the open       *)
(* leaves an incomplete file with no pages.                                *)

\* f"{year:04d}{month:02d}_{company_name}様_ご請求書.pdf", line 178.
bill_filename(year, month, name) ==
  <<year, month, name, "sama_goseikyuusho.pdf">>

\* f"{year:04d}{month:02d}_{company_name}様_ご請求明細書.pdf", line 193.
detail_filename(year, month, name) ==
  <<year, month, name, "sama_goseikyuumeisaisho.pdf">>

\* f"{year:04d}{month:02d}_{company_name}様_ご請求送料明細書.pdf", line 255.
postage_filename(year, month, name) ==
  <<year, month, name, "sama_goseikyuusouryoumeisaisho.pdf">>

Complete(pages) == [pages |-> pages, complete |-> TRUE]

Truncated == [pages |-> <<>>, complete |-> FALSE]

\* What writing a file can do: succeed, fail in open() before the file is
\* touched, or fail in write() after open() truncated it.
WriteOutcomes == {"ok", "open_fails", "write_fails"}

\* The directory after `with open(path, 'wb') as f: writer.write(f)`.
WriteFile(dir, path, pages, how) ==
  CASE how = "ok" -> (path :> Complete(pages)) @@ dir
    [] how = "write_fails" -> (path :> Truncated) @@ dir
    [] OTHER -> dir

\* A slip that takes the page at hi as well.
PageRangeInclusive(pages, lo, hi) ==
  SubSeq(pages, lo + 1, IF hi + 1 <= Len(pages) THEN hi + 1 ELSE Len(pages))

\* pdf_reader.pages[lo .. hi-1], 0-based as in the source.
PageRange(pages, lo, hi) == SubSeq(pages, lo + 1, hi)

\* A slip that starts the detail file at page 0 instead of page 1.
DetailPagesFromZero(pages) == PageRange(pages, 0, Len(pages))

\* The pages of the detail file: range(1, page_count), lines 190-191.
DetailPages(pages) == PageRange(pages, 1, Len(pages))

\* A slip that tests page_count < 1, letting a one-page file through.
TooFewPagesOffByOne(page_count) == page_count < 1

\* The guard of line 168.
TooFewPages(page_count) == page_count < 2

\* A slip that opens the invoice file before looking at the page count, so
\* that a file too short to split leaves an empty invoice behind.
split_pdf_open_first(pdf, dir, name, year, month, bill_write, detail_write) ==
  LET bill_path == bill_filename(year, month, name)
      opened == IF bill_write = "open_fails" THEN dir
                ELSE (bill_path :> Truncated) @@ dir
      after_bill == WriteFile(dir, bill_path, SubSeq(pdf.pages, 1, 1),
                              bill_write)
  IN IF ~pdf.readable
     THEN [output |-> dir, split_files |-> <<>>, error |-> "none"]
     ELSE IF Len(pdf.pages) < 2
          THEN [output |-> opened, split_files |-> <<>>, error |-> "none"]
     ELSE IF bill_write # "ok"
          THEN [output |-> after_bill, split_files |-> <<>>,
                error |-> "none"]
          ELSE [output |-> WriteFile(after_bill,
                                     detail_filename(year, month, name),
                                     DetailPages(pdf.pages), detail_write),
                split_files |-> IF detail_write = "ok"
                                THEN <<bill_path,
                                       detail_filename(year, month, name)>>
                                ELSE <<>>,
                error |-> "none"]

\* split_pdf, lines 159-206: the directory afterwards, the list returned and
\* the exception let out. Every exception (the source cannot be read, a
\* write fails) is caught at line 204 and the empty list is returned, so
\* none gets out.
split_pdf(pdf, dir, name, year, month, bill_write, detail_write) ==
  LET page_count == Len(pdf.pages)
      bill_path == bill_filename(year, month, name)
      detail_path == detail_filename(year, month, name)
      after_bill == WriteFile(dir, bill_path, PageRange(pdf.pages, 0, 1),
                              bill_write)
      after_detail == WriteFile(after_bill, detail_path,
                                DetailPages(pdf.pages), detail_write)
  IN IF ~pdf.readable
     THEN [output |-> dir, split_files |-> <<>>, error |-> "none"]
     ELSE IF TooFewPages(page_count)
          THEN [output |-> dir, split_files |-> <<>>, error |-> "none"]
     ELSE IF bill_write # "ok"
          THEN [output |-> after_bill, split_files |-> <<>>, error |-> "none"]
     ELSE IF detail_write # "ok"
          THEN [output |-> after_detail, split_files |-> <<>>,
                error |-> "none"]
     ELSE [output |-> after_detail,
           split_files |-> <<bill_path, detail_path>>, error |-> "none"]

----------------------------------------------------------------------------
(* Bounds and inputs                                                       *)

\* The longest text, in pieces, of a generated one-page postage statement.
MaxPieces == 4
\* The most pages of a generated document.
MaxPages == 3
\* The most business subfolders in an archive.
MaxBusinesses == 2
\* The most archives in the input directory.
MaxZips == 2

\* All concatenations of at most n of the pieces.
RECURSIVE Concats(_, _)
Concats(pieces, n) ==
  IF n = 0 THEN {<<>>}
  ELSE LET shorter == Concats(pieces, n - 1) IN
       shorter \cup {s \o q : s \in shorter, q \in pieces}

\* All sequences of 0..n elements of S.
SeqsUpTo(S, n) == UNION {[1..k -> S] : k \in 0..n}

\* The example of the label line: "XYZ事業者名ACME Corp【注】".
ExampleLine ==
  <<"X", "Y", "Z">> \o LabelToken
    \o <<"A", "C", "M", "E", " ", "C", "o", "r", "p">> \o <<"LB", "chuu", "RB">>

ACMECorp == <<"A", "C", "M", "E", " ", "C", "o", "r", "p">>

\* Texts around the label token: a letter, a space, the brackets, the token.
LabelPieces == {<<"a">>, <<" ">>, <<"LB">>, <<"RB">>, LabelToken}

LabelTexts == Concats(LabelPieces, MaxPieces) \cup {ExampleLine}

\* Page texts around the company patterns.
YamadaKK == <<"K", "K", "kabu", "shiki", "kai", "ya">>
PatternTexts ==
  { <<>>,
    YamadaKK,
    <<"K", "hou", "jin">>,
    <<"a">> \o LabelToken \o <<"hou", "jin", " ", "K", "K", "K", "zai", "dan">>,
    <<"a", "NL", "b">> \o LabelToken \o <<"a", "b", "c", "NL">> }

\* '出荷明細書', the marker of a shipping-statement page.
ShippingMarker == <<"shutsu", "ni", "mei2", "sai", "sho">>

\* Page texts of a bill_shipping file: an invoice page and a shipping page.
BillTexts == { <<"a", "NL", "a">>, ShippingMarker \o <<"NL", "a">> }

Folders == { <<"0", "0", "1", "_", "A", "C", "M", "E">>, <<"A", "C", "M", "E">> }

Periods == { <<2025, 8>> }

Unreadable(docs) == {[d EXCEPT !.readable = FALSE] : d \in docs}

LabelDocs == {MkDoc(<<t>>) : t \in LabelTexts}

PatternDocs ==
  {NoFile, Corrupt(<<YamadaKK>>)}
    \cup {MkDoc(ts) : ts \in SeqsUpTo(PatternTexts, MaxPages)}

\* Only the first three pages are searched: the fourth page's name is not
\* found.
FourPages == MkDoc(<<<<"a">>, <<"a">>, <<"a">>, YamadaKK>>)

SmallBillDocs ==
  {NoFile, Corrupt(<<YamadaKK>>), MkDoc(<<>>), MkDoc(<<YamadaKK>>), FourPages,
   MkDoc(<<<<"a">>, <<"K", "K", "K", "hou", "jin">>, YamadaKK>>)}

\* The subfolders handed to extract_company_name: a postage statement with
\* a label line beside no or a named bill_shipping file, or any of the
\* pattern documents beside any of the small bill_shipping files.
ExtractItems ==
  [name : Folders, postage : LabelDocs, bill : {NoFile, MkDoc(<<YamadaKK>>)}]
    \cup [name : Folders, postage : PatternDocs, bill : SmallBillDocs]

SplitDocs ==
  LET good == {MkDoc(ts) : ts \in SeqsUpTo(BillTexts, MaxPages)}
  IN good \cup Unreadable(good)

SplitNames == {Sentinel, <<"A", "C", "M", "E">>}

OldFile == Complete(<<[no |-> 0, text |-> <<"o", "l", "d">>]>>)

\* Output directories a split can find: empty, or holding both files of an
\* earlier run.
OldOutputs(name, year, month) ==
  { <<>>,
    (bill_filename(year, month, name) :> OldFile)
      @@ (detail_filename(year, month, name) :> OldFile) }

SmallPostageDocs ==
  {NoFile, MkDoc(<<LabelToken \o <<"A", "C", "M", "E">>>>)}

ZipBillDocs ==
  {NoFile} \cup {MkDoc(ts) : ts \in SeqsUpTo({<<"a">>}, MaxPages)}

\* The subfolders an archive can hold, an empty one included.
ZipItems ==
  [name : {<<"0", "0", "1", "_", "A", "C", "M", "E">>},
   postage : SmallPostageDocs, bill : ZipBillDocs]

----------------------------------------------------------------------------
(* Company-name extraction on its own                                      *)

Idle ==
  /\ output = <<>>
  /\ output_before = <<>>
  /\ split_files = <<>>
  /\ error = "none"
  /\ writes = <<"ok", "ok">>
  /\ success_count = 0
  /\ pending = <<>>
  /\ items_left = 0
  /\ zips_left = 0
  /\ zips_ok = 0

InitExtract ==
  /\ pc = "extract"
  /\ period \in Periods
  /\ item \in ExtractItems
  /\ company_name = <<>>
  /\ Idle

\* The call of line 242.
ExtractName ==
  /\ pc = "extract"
  /\ company_name' = extract_company_name(item.name, item.postage, item.bill)
  /\ error' = "none"
  /\ pc' = "extracted"
  /\ UNCHANGED <<period, item, output, output_before, split_files, writes,
                 success_count, pending, items_left, zips_left, zips_ok>>

NextExtract == ExtractName

SpecExtract == InitExtract /\ [][NextExtract]_vars

----------------------------------------------------------------------------
(* split_pdf on its own                                                    *)

InitSplit ==
  /\ pc = "split"
  /\ period \in Periods
  /\ item \in [name : {<<"A", "C", "M", "E">>}, postage : {NoFile},
               bill : SplitDocs]
  /\ company_name \in SplitNames
  /\ output \in OldOutputs(company_name, period[1], period[2])
  /\ output_before = output
  /\ split_files = <<>>
  /\ error = "none"
  /\ writes = <<"ok", "ok">>
  /\ success_count = 0
  /\ pending = <<>>
  /\ items_left = 0
  /\ zips_left = 0
  /\ zips_ok = 0

\* The call of line 250, with how the two writes go chosen by the file
\* system.
SplitCall ==
  /\ pc = "split"
  /\ \E bill_write \in WriteOutcomes, detail_write \in WriteOutcomes :
       LET r == split_pdf(item.bill, output, company_name, period[1],
                          period[2], bill_write, detail_write)
       IN /\ output' = r.output
          /\ split_files' = r.split_files
          /\ error' = r.error
          /\ writes' = <<bill_write, detail_write>>
  /\ output_before' = output
  /\ pc' = "split_returned"
  /\ UNCHANGED <<period, item, company_name, success_count, pending,
                 items_left, zips_left, zips_ok>>

NextSplit == SplitCall

SpecSplit == InitSplit /\ [][NextSplit]_vars

----------------------------------------------------------------------------
(* Properties of split_pdf, under SpecSplit                                *)

src == item.bill
page_count == Len(src.pages)
Returned == pc = "split_returned"
NoIOFailure == src.readable /\ writes = <<"ok", "ok">>
InvoiceFile == bill_filename(period[1], period[2], company_name)
DetailFile == detail_filename(period[1], period[2], company_name)
Range(seq) == {seq[i] : i \in 1..Len(seq)}

\* The first line of a page's text.
FirstLine(text) == Split(text, <<"NL">>)[1]

\* The 0-based indexes of the pages whose first line holds the marker.
MarkerPages == {i \in 0..(page_count - 1) :
                  Contains(FirstLine(src.pages[i + 1].text), ShippingMarker)}

\* The file at path is complete and holds pages lo..hi-1 of the source, in
\* source order, and nothing else.
HoldsPages(path, lo, hi) ==
  /\ path \in DOMAIN output
  /\ output[path].complete
  /\ Len(output[path].pages) = hi - lo
  /\ \A i \in 1..(hi - lo) :
       /\ output[path].pages[i] = src.pages[lo + i]
       /\ output[path].pages[i].no = lo + i - 1

\* C1 as stated: with the one marker page at index k > 0, the invoice file
\* holds pages [0, k) and the detail file pages [k, page_count).
C1_SplitAtMarker ==
  (Returned /\ NoIOFailure /\ page_count >= 2) =>
    \A k \in 1..(page_count - 1) :
      MarkerPages = {k} =>
        /\ HoldsPages(InvoiceFile, 0, k)
        /\ HoldsPages(DetailFile, k, page_count)

\* C1 amended: for a source of at least 2 pages, wherever its marker page
\* is, a split without I/O failure writes an invoice file holding exactly
\* page 0 and a detail file holding exactly pages [1, page_count), in source
\* order. That is the stated partition exactly when k = 1.
C1_SplitAtPageOne ==
  (Returned /\ NoIOFailure /\ page_count >= 2) =>
    /\ HoldsPages(InvoiceFile, 0, 1)
    /\ HoldsPages(DetailFile, 1, page_count)
    /\ split_files = <<InvoiceFile, DetailFile>>

C1_Witness ==
  /\ Returned /\ NoIOFailure
  /\ page_count = 3
  /\ MarkerPages = {2}
  /\ HoldsPages(DetailFile, 1, 3)

\* C2 as stated: with no marker page and at least 1 page, the invoice file
\* holds page 0 and the detail file holds every page, page 0 included.
C2_DetailIsWholeDocument ==
  (Returned /\ NoIOFailure /\ page_count >= 1 /\ MarkerPages = {}) =>
    /\ HoldsPages(InvoiceFile, 0, 1)
    /\ HoldsPages(DetailFile, 0, page_count)

\* C2 amended: with no marker page, a split without I/O failure of a source
\* of at least 2 pages writes a one-page invoice file holding page 0 and a
\* detail file holding pages [1, page_count), so that page 0 is in the
\* invoice only; for a source of exactly 1 page it writes nothing and
\* returns the empty list.
C2_NoMarkerSplit ==
  (Returned /\ NoIOFailure /\ MarkerPages = {}) =>
    /\ page_count >= 2 =>
         /\ HoldsPages(InvoiceFile, 0, 1)
         /\ DetailFile \in DOMAIN output
         /\ Len(output[DetailFile].pages) = page_count - 1
         /\ \A i \in 1..Len(output[DetailFile].pages) :
              /\ output[DetailFile].pages[i].no = i
              /\ output[DetailFile].pages[i] = src.pages[i + 1]
    /\ page_count = 1 => (output = output_before /\ split_files = <<>>)

C2_Witness ==
  /\ Returned /\ NoIOFailure
  /\ MarkerPages = {}
  /\ page_count = 2
  /\ output[DetailFile].pages = <<src.pages[2]>>

\* C3 as stated: a split of a source with zero pages ends in
\* EmptyDocumentError and leaves the output directory as it was.
C3_EmptyDocumentError ==
  (Returned /\ src.readable /\ page_count = 0) =>
    (error = "EmptyDocumentError" /\ output = output_before)

\* C3 amended: a split of a source with zero pages raises nothing: it
\* returns the empty list, as it does for a one-page source and after an
\* I/O failure, and it leaves the output directory exactly as it was.
C3_EmptyReturnsNothing ==
  (Returned /\ src.readable /\ page_count = 0) =>
    (error = "none" /\ split_files = <<>> /\ output = output_before)

C3_Witness ==
  /\ Returned /\ src.readable
  /\ page_count = 0
  /\ InvoiceFile \in DOMAIN output
  /\ output[InvoiceFile] = OldFile
  /\ split_files = <<>>

\* C4 as stated: for a source of at least 1 page, a split without I/O
\* failure returns a detail path, and the detail file has at least one page.
C4_DetailFromOnePage ==
  (Returned /\ NoIOFailure /\ page_count >= 1) =>
    /\ DetailFile \in Range(split_files)
    /\ DetailFile \in DOMAIN output
    /\ output[DetailFile].complete
    /\ Len(output[DetailFile].pages) >= 1

\* C4 amended: for a source of at least 2 pages, a split without I/O failure
\* returns a detail path, and the detail file it names is complete and has
\* page_count - 1 >= 1 pages; for a source of exactly 1 page split returns
\* the empty list, with no detail path.
C4_DetailFromTwoPages ==
  (Returned /\ NoIOFailure) =>
    /\ page_count >= 2 =>
         /\ DetailFile \in Range(split_files)
         /\ DetailFile \in DOMAIN output
         /\ output[DetailFile].complete
         /\ Len(output[DetailFile].pages) >= 1
    /\ page_count = 1 => DetailFile \notin Range(split_files)

C4_Witness ==
  /\ Returned /\ NoIOFailure
  /\ page_count = 3
  /\ DetailFile \in Range(split_files)
  /\ Len(output[DetailFile].pages) = 2

\* The files this call of split_pdf created or changed.
Written ==
  {path \in DOMAIN output :
     path \notin DOMAIN output_before \/ output[path] # output_before[path]}

\* C9 as stated: split returns the paths of all the files it wrote, and a
\* write that fails ends split in an error rather than in a normal result.
C9_WritesReportedOrRaised ==
  Returned =>
    /\ Written \subseteq Range(split_files)
    /\ (src.readable /\ page_count >= 2 /\ writes # <<"ok", "ok">>) =>
         error # "none"

----------------------------------------------------------------------------
(* Properties of extract_company_name, under SpecExtract                   *)

Extracted == pc = "extracted"

\* The text after the first underscore of the folder name.
AfterUnderscore(folder) == Drop(folder, Find(folder, <<"_">>, 1) + 1)

\* What one heuristic gave, <<>> standing for nothing.
Gave(name) == IF name = Sentinel THEN <<>> ELSE name
PostageGave ==
  IF item.postage.present
  THEN Gave(extract_company_name_from_postage(item.postage)) ELSE <<>>
BillGave ==
  IF item.bill.present
  THEN Gave(extract_company_name_from_pdf(item.bill)) ELSE <<>>

\* C5 as stated: when the documents give no name, a folder name with an
\* underscore gives the text after its first underscore, and one without
\* gives the sentinel; so with no document "001_ACME" gives "ACME".
C5_FolderFallback ==
  (Extracted /\ PostageGave = <<>> /\ BillGave = <<>>) =>
    company_name = IF Contains(item.name, <<"_">>)
                   THEN AfterUnderscore(item.name) ELSE Sentinel

\* C5 amended: the extractor tries its heuristics in strict priority order
\* and stops at the first success: (1) the postage statement (its label
\* line, else a company pattern in it), (2) a company pattern in the
\* bill_shipping file, (3) otherwise the sentinel. The folder name is never
\* used: with no document, "001_ACME" and "ACME" both give the sentinel.
C5_PostageThenBillThenSentinel ==
  Extracted =>
    /\ PostageGave # <<>> => company_name = PostageGave
    /\ (PostageGave = <<>> /\ BillGave # <<>>) => company_name = BillGave
    /\ (PostageGave = <<>> /\ BillGave = <<>>) => company_name = Sentinel

C5_Witness ==
  /\ Extracted
  /\ ~item.postage.present /\ ~item.bill.present
  /\ Contains(item.name, <<"_">>)
  /\ AfterUnderscore(item.name) = <<"A", "C", "M", "E">>
  /\ company_name = Sentinel

\* The postage statement is one page of one line that holds the label
\* token, and nothing else gives a name. AfterLabel is the text from the
\* first token to the next one or to the end of the line.
OneLabelLine ==
  /\ item.postage.present /\ item.postage.readable
  /\ Len(item.postage.pages) = 1
  /\ ~Contains(item.postage.pages[1].text, <<"NL">>)
  /\ Len(Split(item.postage.pages[1].text, LabelToken)) >= 2
  /\ extract_company_name_from_pdf(item.postage) = Sentinel
  /\ BillGave = <<>>

BeforeLabel == Split(item.postage.pages[1].text, LabelToken)[1]
AfterLabel == Split(item.postage.pages[1].text, LabelToken)[2]

\* No opening bracket is followed, anywhere later, by a closing one.
NoBracketPair(s) ==
  \A i \in 1..Len(s), j \in 1..Len(s) : ~(i < j /\ s[i] = "LB" /\ s[j] = "RB")

Trimmed(s) == s = <<>> \/ (s[1] \notin Whitespace /\ s[Len(s)] \notin Whitespace)

\* C6 as stated: the line's text after the token, if not blank, else its
\* text before the token, if not blank, is returned with the bracketed
\* annotations removed and trimmed.
C6_AfterElseBefore ==
  (Extracted /\ OneLabelLine) =>
    LET chosen == IF Strip(AfterLabel) # <<>> THEN AfterLabel ELSE BeforeLabel
        name == Strip(SubBrackets(Strip(chosen)))
    IN name # <<>> => company_name = name

\* The lines of the postage statement, and the numbers of those that hold
\* the label token followed by more than 2 characters, blanks at both ends
\* not counted.
PostageLines == Split(FullText(item.postage.pages), <<"NL">>)
AfterToken(line) == Strip(Split(line, LabelToken)[2])
LabelLines ==
  {i \in 1..Len(PostageLines) :
     /\ Contains(PostageLines[i], LabelToken)
     /\ Len(AfterToken(PostageLines[i])) > 2}

\* C6 amended: when lines of the postage statement contain the label token,
\* the extractor takes the first of them whose text after the token (up to
\* the next token or the end of the line), trimmed, has more than 2
\* characters, and returns that text with every bracketed annotation
\* removed and trimmed again, unless nothing is left of it. A line whose
\* text after the token has 2 characters or fewer is passed over, and the
\* text before the token is never used. The line
\* "XYZ<label>ACME Corp[note]" gives "ACME Corp".
C6_AfterLabelOverTwo ==
  (Extracted /\ item.postage.present /\ item.postage.readable) =>
    /\ LabelLines # {} =>
         LET first == CHOOSE i \in LabelLines : \A k \in LabelLines : i <= k
             name == Strip(SubBrackets(AfterToken(PostageLines[first])))
         IN (name # <<>> /\ name # Sentinel) =>
              /\ company_name = name
              /\ NoBracketPair(company_name)
              /\ Trimmed(company_name)
    /\ (LabelLines = {} /\ BillGave = <<>>
        /\ extract_company_name_from_pdf(item.postage) = Sentinel) =>
         company_name = Sentinel
    /\ item.postage = MkDoc(<<ExampleLine>>) => company_name = ACMECorp

C6_Witness ==
  /\ Extracted /\ OneLabelLine
  /\ item.postage.pages[1].text = ExampleLine
  /\ company_name = ACMECorp

\* The label line that holds, after the label, a bracketed annotation only.
BracketOnlyLine == LabelToken \o <<"LB", "a", "RB">>

\* C7: the name returned is never the empty string, whatever the documents
\* and the folder name; it is the sentinel when no document is there or
\* readable; and a label line whose text after the label is a bracketed
\* annotation only, which the bracket removal empties, gives the sentinel
\* when nothing else gives a name, never the empty name.
C7_NameNeverEmpty ==
  Extracted =>
    /\ company_name # <<>>
    /\ Strip(company_name) # <<>>
    /\ ((~item.postage.present \/ ~item.postage.readable)
        /\ (~item.bill.present \/ ~item.bill.readable)) =>
          company_name = Sentinel
    /\ (item.postage = MkDoc(<<BracketOnlyLine>>) /\ BillGave = <<>>) =>
          company_name = Sentinel

C7_Witness ==
  /\ Extracted
  /\ item.postage = MkDoc(<<BracketOnlyLine>>)
  /\ ScanLines(<<BracketOnlyLine>>) = <<TRUE, <<>> >>
  /\ ~item.bill.present
  /\ company_name = Sentinel

\* C8: a document that is there but cannot be read or parsed counts as one
\* that gave nothing: the name is the one the other heuristics give, the
\* sentinel when they give none, and the extractor returns it without
\* letting an exception out.
C8_ReadFailureAbsorbed ==
  Extracted =>
    /\ error = "none"
    /\ (item.postage.present /\ ~item.postage.readable) =>
         company_name = IF BillGave # <<>> THEN BillGave ELSE Sentinel
    /\ (item.bill.present /\ ~item.bill.readable) =>
         company_name = IF PostageGave # <<>> THEN PostageGave ELSE Sentinel

C8_Witness ==
  /\ Extracted
  /\ item.postage.present /\ ~item.postage.readable
  /\ item.bill.present /\ item.bill.readable
  /\ company_name = YamadaKK

----------------------------------------------------------------------------
(* run and process_zip_file                                                *)

NoItem == [name |-> <<>>, postage |-> NoFile, bill |-> NoFile]

\* The orders in which item.iterdir() can list the subfolder's PDF files.
Listings(it) ==
  LET kinds == (IF it.bill.present THEN {"bill_shipping"} ELSE {})
                 \cup (IF it.postage.present THEN {"postage"} ELSE {})
  IN {order \in SeqsUpTo(kinds, Cardinality(kinds)) :
        Len(order) = Cardinality(kinds) /\ Range(order) = kinds}

Init ==
  /\ pc = "run"
  /\ period \in Periods
  /\ item = NoItem
  /\ company_name = <<>>
  /\ output = <<>>
  /\ output_before = <<>>
  /\ split_files = <<>>
  /\ error = "none"
  /\ writes = <<"ok", "ok">>
  /\ success_count = 0
  /\ pending = <<>>
  /\ items_left = 0
  /\ zips_left \in 0..MaxZips
  /\ zips_ok = 0

\* process_zip_file, lines 210-219 and 266-268: making the temporary
\* directory or unpacking the archive raises, and False is returned.
ZipExtractFails ==
  /\ pc = "run"
  /\ zips_left > 0
  /\ zips_left' = zips_left - 1
  /\ UNCHANGED <<pc, period, item, company_name, output, output_before,
                 split_files, error, writes, success_count, pending,
                 items_left, zips_ok>>

\* process_zip_file, lines 210-224: the archive is unpacked and holds some
\* number of business subfolders.
ZipExtracted ==
  /\ pc = "run"
  /\ zips_left > 0
  /\ \E n \in 0..MaxBusinesses : items_left' = n
  /\ success_count' = 0
  /\ pc' = "zip"
  /\ UNCHANGED <<period, item, company_name, output, output_before,
                 split_files, error, writes, pending, zips_left, zips_ok>>

\* Lines 226-243: the next subfolder, its two files found and its company
\* name extracted.
NextItem ==
  /\ pc = "zip"
  /\ items_left > 0
  /\ \E it \in ZipItems :
       /\ item' = it
       /\ company_name' = extract_company_name(it.name, it.postage, it.bill)
       /\ pending' \in Listings(it)
  /\ items_left' = items_left - 1
  /\ pc' = "files"
  /\ UNCHANGED <<period, output, output_before, split_files, error, writes,
                 success_count, zips_left, zips_ok>>

\* Lines 248-251: the bill_shipping file is split.
SplitBill ==
  /\ pc = "files"
  /\ pending # <<>>
  /\ Head(pending) = "bill_shipping"
  /\ \E bill_write \in WriteOutcomes, detail_write \in WriteOutcomes :
       LET r == split_pdf(item.bill, output, company_name, period[1],
                          period[2], bill_write, detail_write)
       IN /\ output' = r.output
          /\ split_files' = r.split_files
          /\ error' = r.error
          /\ writes' = <<bill_write, detail_write>>
          /\ success_count' = success_count + Len(r.split_files)
  /\ output_before' = output
  /\ pending' = Tail(pending)
  /\ UNCHANGED <<pc, period, item, company_name, items_left, zips_left,
                 zips_ok>>

\* Lines 253-261: the postage statement is copied under its new name.
CopyPostage ==
  /\ pc = "files"
  /\ pending # <<>>
  /\ Head(pending) = "postage"
  /\ output' = WriteFile(output,
                         postage_filename(period[1], period[2], company_name),
                         item.postage.pages, "ok")
  /\ success_count' = success_count + 1
  /\ pending' = Tail(pending)
  /\ UNCHANGED <<pc, period, item, company_name, output_before, split_files,
                 error, writes, items_left, zips_left, zips_ok>>

\* Line 259 raises: shutil.copy2 fails before or after creating the file.
\* Nothing between line 259 and the except of line 266 catches it, so
\* process_zip_file leaves both loops and returns False.
CopyPostageFails ==
  /\ pc = "files"
  /\ pending # <<>>
  /\ Head(pending) = "postage"
  /\ \E how \in WriteOutcomes \ {"ok"} :
       output' = WriteFile(output,
                           postage_filename(period[1], period[2],
                                            company_name),
                           item.postage.pages, how)
  /\ zips_left' = zips_left - 1
  /\ pc' = "run"
  /\ UNCHANGED <<period, item, company_name, output_before, split_files,
                 error, writes, success_count, pending, items_left, zips_ok>>

\* The loop of line 246 is through: back to the loop of line 226.
ItemDone ==
  /\ pc = "files"
  /\ pending = <<>>
  /\ pc' = "zip"
  /\ UNCHANGED <<period, item, company_name, output, output_before,
                 split_files, error, writes, success_count, pending,
                 items_left, zips_left, zips_ok>>

\* Lines 263-264 and 297-298: every subfolder was handled, True is returned.
ZipDone ==
  /\ pc = "zip"
  /\ items_left = 0
  /\ zips_ok' = zips_ok + 1
  /\ zips_left' = zips_left - 1
  /\ pc' = "run"
  /\ UNCHANGED <<period, item, company_name, output, output_before,
                 split_files, error, writes, success_count, pending,
                 items_left>>

\* Lines 285-288 and 300-305: no archive is left.
RunDone ==
  /\ pc = "run"
  /\ zips_left = 0
  /\ pc' = "finished"
  /\ UNCHANGED <<period, item, company_name, output, output_before,
                 split_files, error, writes, success_count, pending,
                 items_left, zips_left, zips_ok>>

Next ==
  \/ ZipExtractFails
  \/ ZipExtracted
  \/ NextItem
  \/ SplitBill
  \/ CopyPostage
  \/ CopyPostageFails
  \/ ItemDone
  \/ ZipDone
  \/ RunDone

Spec == Init /\ [][Next]_vars

----------------------------------------------------------------------------
(* Properties of process_zip_file, under Spec                              *)

\* C10 as stated: whatever failed for one business of an archive (a split
\* that produced nothing, a write or a copy that raised), every other
\* subfolder of the archive is still processed: when process_zip_file is
\* through with an archive, no subfolder of it is left unreached.
C10_EverySubfolderReached ==
  pc \in {"run", "finished"} => items_left = 0

====
